---- MODULE Spec2Model ----
(***************************************************************************)
(* Retrieval-augmented question answering: the ingestion pipeline          *)
(* (ingest.py), the two-node retrieve/generate workflow (rag_graph.py),    *)
(* the HTTP handlers that invoke them (app.py) and the two service         *)
(* wrappers (utils.py).                                                    *)
(*                                                                         *)
(* Text is a sequence of characters; a character is a number: NL is the    *)
(* newline, the members of Letters are letters.  The vector index is the   *)
(* one shared resource: a collection (absent, or present with a vector     *)
(* size) and a set of points.                                              *)
(***************************************************************************)
EXTENDS Integers, Sequences, FiniteSets, TLC

\* ------------------------------------------------------------------ bounds
MaxIngests == 2      \* /upload requests served in a run
MaxAsks == 1         \* /ask requests served in a run
MaxTextLen == 3      \* chunk_text on its own: length of the text
MaxChunkSize == 3    \* chunk_text on its own: chunk_size
ChunkSize == 1       \* chunk_size used by ingest_pdf (the default 500, scaled down)

\* ------------------------------------------------------- program constants
NL == 0              \* "\n"
Limit == 5           \* query_points(limit=5)

Letters == {1, 2}
Chars == {NL} \cup Letters
\* dimensionalities the configured embedding model may have
Dims == {2, 3}
\* server processes; a process serves one request at a time (the handlers of
\* app.py block the event loop), two processes interleave at their network calls
Procs == {1, 2}

Min(a, b) == IF a < b THEN a ELSE b

StringsOver(S, n) == UNION {[1..k -> S] : k \in 0..n}

\* ------------------------------------------------------------- chunk_text
\* a slice that stops one character early: text[i:j-1]
SliceShort(text, i, j) == SubSeq(text, i + 1, Min(j - 1, Len(text)))

\* text[i:j] with 0 <= i, Python slice semantics (j clipped to len(text))
Slice(text, i, j) == SubSeq(text, i + 1, Min(j, Len(text)))

RECURSIVE ChunkFrom(_, _, _)
\* the loop "for i in range(0, len(text), chunk_size)" from index i on
ChunkFrom(text, i, chunk_size) ==
    IF i >= Len(text) THEN <<>>
    ELSE <<Slice(text, i, i + chunk_size)>> \o ChunkFrom(text, i + chunk_size, chunk_size)

chunk_text(text, chunk_size) == ChunkFrom(text, 0, chunk_size)

\* --------------------------------------------------------------- read_pdf
RECURSIVE read_pdf(_)
\* text += page.extract_text() + "\n" for every page
read_pdf(pages) ==
    IF pages = <<>> THEN <<>>
    ELSE read_pdf(SubSeq(pages, 1, Len(pages) - 1)) \o pages[Len(pages)] \o <<NL>>

\* uploaded documents, as the text of their pages: no page, a page without
\* text, pages of one and two letters, and two pages
Docs == {<<>>, <<(<<>>)>>, <<(<<2>>)>>, <<(<<1, 1>>)>>, <<(<<1, 2>>)>>, <<(<<1>>), (<<2>>)>>}
Questions == [1..1 -> Letters]

\* ------------------------------------------------------------- embed_text
\* The embedding service answers with a vector of the model's dimensionality
\* dim; the deterministic stand-in counts the letters of the text.
Count(text, c) == Cardinality({k \in 1..Len(text) : text[k] = c})
Embed(text, dim) == [k \in 1..dim |-> 1 + Count(text, k)]

\* ------------------------------------------------------ cosine similarity
RECURSIVE DotFrom(_, _, _)
DotFrom(v, w, k) == IF k > Min(Len(v), Len(w)) THEN 0 ELSE v[k] * w[k] + DotFrom(v, w, k + 1)
Dot(v, w) == DotFrom(v, w, 1)
\* cos(q, v) > cos(q, w), for vectors of positive components
Closer(q, v, w) == Dot(q, v) * Dot(q, v) * Dot(w, w) > Dot(q, w) * Dot(q, w) * Dot(v, v)

\* ------------------------------------------------------------------ state
VARIABLES
    dim,         \* dimensionality of the vectors the embedding model returns
    collection,  \* the collection COLLECTION_NAME in the index: absent or present with a size
    points,      \* the points stored in the collection
    ing,         \* ing[p]: the ingest_pdf invocation process p serves (locals and position)
    wf,          \* wf[p]: the /ask request process p serves (graph state and position)
    uploads,     \* /upload requests accepted so far
    asks,        \* /ask requests accepted so far
    probeLen,    \* length of the first first-chunk embedding any ingestion obtained (0: none yet)
    ct           \* chunk_text called on its own: arguments and result

vars == <<dim, collection, points, ing, wf, uploads, asks, probeLen, ct>>

Absent == [exists |-> FALSE, size |-> 0]

\* no upload served: n numbers the invocation, the other fields are its locals
\* and what it has done so far
IngestInit ==
    [pc |-> "idle", n |-> 0, chunks |-> <<>>, first_embedding |-> <<>>,
     points |-> <<>>, embedCalls |-> 0, ensureCalls |-> 0, upsertCalls |-> 0,
     batch |-> 0, error |-> "none", conflict |-> FALSE]

\* graph.invoke({"question": question, "context": [], "answer": ""})
GraphState(question) == [question |-> question, context |-> <<>>, answer |-> <<>>]

\* no question served
AskInit ==
    [pc |-> "idle", next |-> "none", state |-> GraphState(<<>>), log |-> <<>>,
     error |-> "none", response |-> "none", prompt |-> "none", genCalls |-> 0,
     results |-> <<>>, queried |-> "none", seen |-> {}]

CtInit == [text |-> <<>>, chunk_size |-> 1, chunks |-> <<>>, done |-> FALSE]

Init ==
    /\ dim \in Dims
    /\ collection = Absent
    /\ points = {}
    /\ ing = [p \in Procs |-> IngestInit]
    /\ wf = [p \in Procs |-> AskInit]
    /\ uploads = 0
    /\ asks = 0
    /\ probeLen = 0
    /\ ct = CtInit

\* process p is between two requests
Free(p) == ing[p].pc \in {"idle", "done", "raised"} /\ wf[p].pc \in {"idle", "returned", "raised"}

\* ------------------------------------------------------------- ingest_pdf
\* upload_pdf calls ingest_pdf(path): text = read_pdf(path); chunks =
\* chunk_text(text); then chunks[0] is read, an IndexError when there is no chunk
IngestPdf(p, doc) ==
    /\ Free(p)
    /\ uploads < MaxIngests
    /\ uploads' = uploads + 1
    /\ LET chunks == chunk_text(read_pdf(doc), ChunkSize)
       IN  ing' = [ing EXCEPT ![p] = [IngestInit EXCEPT
                       !.n = uploads + 1,
                       !.chunks = chunks,
                       !.pc = IF chunks = <<>> THEN "raised" ELSE "probe",
                       !.error = IF chunks = <<>> THEN "IndexError" ELSE "none"]]
    /\ wf' = [wf EXCEPT ![p] = AskInit]
    /\ UNCHANGED <<dim, collection, points, asks, probeLen, ct>>

\* first_embedding = embed_text(chunks[0])
EmbedFirst(p) ==
    /\ ing[p].pc = "probe"
    /\ LET e == Embed(ing[p].chunks[1], dim)
       IN  /\ ing' = [ing EXCEPT ![p].first_embedding = e,
                                 ![p].embedCalls = @ + 1,
                                 ![p].pc = "ensure"]
           /\ probeLen' = IF probeLen = 0 THEN Len(e) ELSE probeLen
    /\ UNCHANGED <<dim, collection, points, wf, uploads, asks, ct>>

\* response.raise_for_status() raises in an embed_text call of ingest_pdf:
\* the exception leaves ingest_pdf, nothing after the call runs
EmbedRaises(p) ==
    /\ ing[p].pc \in {"probe", "embed"}
    /\ ing' = [ing EXCEPT ![p].embedCalls = @ + 1, ![p].pc = "raised",
                          ![p].error = "HTTPError"]
    /\ UNCHANGED <<dim, collection, points, wf, uploads, asks, probeLen, ct>>

\* create_collection, the test: COLLECTION_NAME not in the names get_collections() lists
GetCollections(p) ==
    /\ ing[p].pc = "ensure"
    /\ ing' = [ing EXCEPT ![p].ensureCalls = @ + 1,
                          ![p].pc = IF collection.exists THEN "embed" ELSE "create"]
    /\ UNCHANGED <<dim, collection, points, wf, uploads, asks, probeLen, ct>>

\* a hard-coded vector size
VectorSizeFixed(first_embedding) == 2

\* create_collection(len(first_embedding)): VectorParams(size=vector_size, ...)
VectorSize(first_embedding) == Len(first_embedding)

\* create_collection, the request: client.create_collection(...).  The index
\* refuses to create a collection that exists (409) and the client raises.
CreateCollection(p) ==
    /\ ing[p].pc = "create"
    /\ IF collection.exists
       THEN /\ ing' = [ing EXCEPT ![p].conflict = TRUE, ![p].pc = "raised",
                                  ![p].error = "Conflict"]
            /\ UNCHANGED collection
       ELSE /\ collection' = [exists |-> TRUE, size |-> VectorSize(ing[p].first_embedding)]
            /\ ing' = [ing EXCEPT ![p].pc = "embed"]
    /\ UNCHANGED <<dim, points, wf, uploads, asks, probeLen, ct>>

\* a loop that skips the chunk the probe has embedded already
LoopChunksRest(chunks) == Tail(chunks)

\* the chunks the loop "for chunk in chunks" visits
LoopChunks(chunks) == chunks

\* PointStruct(id=str(uuid.uuid4()), vector=embedding, payload={"text": chunk});
\* the fresh identifier is the pair (invocation, position in the batch)
PointStruct(n, k, embedding, chunk) == [id |-> <<n, k>>, vector |-> embedding, text |-> chunk]

\* the loop that writes every point to the index as soon as it is embedded
EmbedChunkEager(p) ==
    /\ ing[p].pc = "embed"
    /\ LET todo == LoopChunks(ing[p].chunks)
           k == Len(ing[p].points) + 1
           pt == PointStruct(ing[p].n, k, Embed(todo[k], dim), todo[k])
       IN  IF k > Len(todo)
           THEN ing' = [ing EXCEPT ![p].pc = "upsert"] /\ UNCHANGED points
           ELSE /\ ing' = [ing EXCEPT ![p].points = Append(@, pt), ![p].embedCalls = @ + 1]
                /\ points' = points \cup {pt}
    /\ UNCHANGED <<dim, collection, wf, uploads, asks, probeLen, ct>>

\* the loop: its exit test, or one iteration: embedding = embed_text(chunk);
\* points.append(PointStruct(...))
EmbedChunk(p) ==
    /\ ing[p].pc = "embed"
    /\ LET todo == LoopChunks(ing[p].chunks)
           k == Len(ing[p].points) + 1
       IN  IF k > Len(todo)
           THEN ing' = [ing EXCEPT ![p].pc = "upsert"]
           ELSE ing' = [ing EXCEPT
                   ![p].points = Append(@, PointStruct(ing[p].n, k, Embed(todo[k], dim), todo[k])),
                   ![p].embedCalls = @ + 1]
    /\ UNCHANGED <<dim, collection, points, wf, uploads, asks, probeLen, ct>>

\* client.upsert(collection_name=COLLECTION_NAME, points=points)
Upsert(p) ==
    /\ ing[p].pc = "upsert"
    /\ points' = points \cup {ing[p].points[k] : k \in 1..Len(ing[p].points)}
    /\ ing' = [ing EXCEPT ![p].upsertCalls = @ + 1, ![p].batch = Len(ing[p].points),
                          ![p].pc = "done"]
    /\ UNCHANGED <<dim, collection, wf, uploads, asks, probeLen, ct>>

\* the index is unreachable in get_collections, create_collection or upsert
IndexRaises(p) ==
    /\ ing[p].pc \in {"ensure", "create", "upsert"}
    /\ ing' = [ing EXCEPT ![p].pc = "raised", ![p].error = "Unavailable"]
    /\ UNCHANGED <<dim, collection, points, wf, uploads, asks, probeLen, ct>>

\* ----------------------------------------------------------- query_points
\* the points of ps no other point of ps is closer to the query than
Nearest(ps, q) == {pt \in ps : \A o \in ps : ~Closer(q, o.vector, pt.vector)}

RECURSIVE TopK(_, _, _)
\* every answer the index may give: at most k points of ps by descending
\* cosine similarity to q, points of equal similarity in any order
TopK(ps, q, k) ==
    IF k = 0 \/ ps = {} THEN {<<>>}
    ELSE UNION {{<<pt>> \o rest : rest \in TopK(ps \ {pt}, q, k - 1)} : pt \in Nearest(ps, q)}

\* ----------------------------------------------------------- build_graph
\* graph.set_entry_point("retrieve")
EntryPoint == "retrieve"
\* graph.add_edge("retrieve", "generate")
Edges == {<<"retrieve", "generate">>}

\* a graph with an edge back from generate to retrieve
NextNodeCycle(n) == IF n = "retrieve" THEN "generate" ELSE "retrieve"

\* the node the compiled graph runs after node n; a node without an edge ends the run
NextNode(n) == IF \E e \in Edges : e[1] = n THEN (CHOOSE e \in Edges : e[1] = n)[2] ELSE "END"

\* ------------------------------------------------------------ ask_question
\* result = graph.invoke({"question": question, "context": [], "answer": ""})
AskQuestion(p, question) ==
    /\ Free(p)
    /\ asks < MaxAsks
    /\ asks' = asks + 1
    /\ wf' = [wf EXCEPT ![p] = [AskInit EXCEPT !.pc = "running", !.next = EntryPoint,
                                               !.state = GraphState(question)]]
    /\ ing' = [ing EXCEPT ![p] = IngestInit]
    /\ UNCHANGED <<dim, collection, points, uploads, probeLen, ct>>

\* the texts of the results, last result first
ContextReversed(results) == [k \in 1..Len(results) |-> results[Len(results) + 1 - k].text]

\* context = [r.payload["text"] for r in results]
Context(results) == [k \in 1..Len(results) |-> results[k].text]

\* what the query found in the index
Queried == IF ~collection.exists THEN "absent" ELSE IF points = {} THEN "empty" ELSE "filled"

\* node retrieve: embedding = embed_text(state["question"]); results =
\* client.query_points(..., limit=5).points; return {"context": context}
Retrieve(p) ==
    /\ wf[p].pc = "running" /\ wf[p].next = "retrieve"
    /\ collection.exists
    /\ \E results \in TopK(points, Embed(wf[p].state.question, dim), Limit) :
          wf' = [wf EXCEPT ![p].state.context = Context(results),
                           ![p].results = results,
                           ![p].seen = points,
                           ![p].queried = Queried,
                           ![p].log = Append(@, "retrieve"),
                           ![p].next = NextNode("retrieve")]
    /\ UNCHANGED <<dim, collection, points, ing, uploads, asks, probeLen, ct>>

\* node retrieve: embed_text(state["question"]) raises; the graph run is over
\* and the exception reaches ask_question's caller
RetrieveEmbedRaises(p) ==
    /\ wf[p].pc = "running" /\ wf[p].next = "retrieve"
    /\ wf' = [wf EXCEPT ![p].pc = "raised", ![p].next = "none", ![p].error = "HTTPError",
                        ![p].log = Append(@, "retrieve")]
    /\ UNCHANGED <<dim, collection, points, ing, uploads, asks, probeLen, ct>>

\* node retrieve: client.query_points raises, because the index is unreachable
\* or because it answers 404 for a collection that does not exist
QueryRaises(p) ==
    /\ wf[p].pc = "running" /\ wf[p].next = "retrieve"
    /\ \E err \in {"Unavailable", "NotFound"} :
          /\ err = "NotFound" <=> ~collection.exists
          /\ wf' = [wf EXCEPT ![p].pc = "raised", ![p].next = "none", ![p].error = err,
                              ![p].queried = Queried,
                              ![p].log = Append(@, "retrieve")]
    /\ UNCHANGED <<dim, collection, points, ing, uploads, asks, probeLen, ct>>

RECURSIVE Join(_, _)
\* sep.join(parts)
Join(parts, sep) ==
    IF parts = <<>> THEN <<>>
    ELSE IF Len(parts) = 1 THEN parts[1]
    ELSE parts[1] \o sep \o Join(Tail(parts), sep)

\* the prompt template: its two holes are context_text = "\n\n".join(context)
\* and state['question']
Prompt(context, question) == [context_text |-> Join(context, <<NL, NL>>), question |-> question]

\* the text the language model returns for a prompt (a deterministic stand-in)
generate_answer(prompt) == <<"answer to", prompt>>

\* node generate: answer = generate_answer(prompt, LLM_MODEL); return {"answer": answer}
Generate(p) ==
    /\ wf[p].pc = "running" /\ wf[p].next = "generate"
    /\ LET prompt == Prompt(wf[p].state.context, wf[p].state.question)
       IN  wf' = [wf EXCEPT ![p].state.answer = generate_answer(prompt),
                            ![p].prompt = prompt,
                            ![p].genCalls = @ + 1,
                            ![p].log = Append(@, "generate"),
                            ![p].next = NextNode("generate")]
    /\ UNCHANGED <<dim, collection, points, ing, uploads, asks, probeLen, ct>>

\* a generate node that swallows the failure and leaves the state as it was
GenerateRaisesSwallowed(p) ==
    /\ wf[p].pc = "running" /\ wf[p].next = "generate"
    /\ wf' = [wf EXCEPT ![p].error = "HTTPError",
                        ![p].genCalls = @ + 1,
                        ![p].log = Append(@, "generate"),
                        ![p].next = NextNode("generate")]
    /\ UNCHANGED <<dim, collection, points, ing, uploads, asks, probeLen, ct>>

\* node generate: generate_answer raises; the graph run is over and the
\* exception reaches ask_question's caller
GenerateRaises(p) ==
    /\ wf[p].pc = "running" /\ wf[p].next = "generate"
    /\ wf' = [wf EXCEPT ![p].pc = "raised", ![p].next = "none", ![p].error = "HTTPError",
                        ![p].genCalls = @ + 1,
                        ![p].log = Append(@, "generate")]
    /\ UNCHANGED <<dim, collection, points, ing, uploads, asks, probeLen, ct>>

\* return {"answer": result["answer"]}, once the graph run has ended
Answer(p) ==
    /\ wf[p].pc = "running" /\ wf[p].next = "END"
    /\ wf' = [wf EXCEPT ![p].pc = "returned", ![p].next = "none",
                        ![p].response = [answer |-> wf[p].state.answer]]
    /\ UNCHANGED <<dim, collection, points, ing, uploads, asks, probeLen, ct>>

\* ------------------------------------------------------------ the program
Next ==
    \/ \E p \in Procs, doc \in Docs : IngestPdf(p, doc)
    \/ \E p \in Procs : EmbedFirst(p)
    \/ \E p \in Procs : EmbedRaises(p)
    \/ \E p \in Procs : GetCollections(p)
    \/ \E p \in Procs : CreateCollection(p)
    \/ \E p \in Procs : EmbedChunk(p)
    \/ \E p \in Procs : Upsert(p)
    \/ \E p \in Procs : IndexRaises(p)
    \/ \E p \in Procs, question \in Questions : AskQuestion(p, question)
    \/ \E p \in Procs : Retrieve(p)
    \/ \E p \in Procs : RetrieveEmbedRaises(p)
    \/ \E p \in Procs : QueryRaises(p)
    \/ \E p \in Procs : Generate(p)
    \/ \E p \in Procs : GenerateRaises(p)
    \/ \E p \in Procs : Answer(p)

Spec == Init /\ [][Next]_vars

\* ------------------------------------------------ chunk_text on its own
InitChunk ==
    /\ dim \in {2}
    /\ collection = Absent
    /\ points = {}
    /\ ing = [p \in Procs |-> IngestInit]
    /\ wf = [p \in Procs |-> AskInit]
    /\ uploads = 0
    /\ asks = 0
    /\ probeLen = 0
    /\ \E text \in StringsOver(Chars, MaxTextLen), c \in 1..MaxChunkSize :
          ct = [text |-> text, chunk_size |-> c, chunks |-> <<>>, done |-> FALSE]

\* chunks = chunk_text(text, chunk_size)
ChunkText ==
    /\ ~ct.done
    /\ ct' = [ct EXCEPT !.chunks = chunk_text(ct.text, ct.chunk_size), !.done = TRUE]
    /\ UNCHANGED <<dim, collection, points, ing, wf, uploads, asks, probeLen>>

NextChunk == ChunkText

SpecChunk == InitChunk /\ [][NextChunk]_vars

\* ------------------------------------------- uploads only, two processes
NextIngest ==
    \/ \E p \in Procs, doc \in Docs : IngestPdf(p, doc)
    \/ \E p \in Procs : EmbedFirst(p)
    \/ \E p \in Procs : EmbedRaises(p)
    \/ \E p \in Procs : GetCollections(p)
    \/ \E p \in Procs : CreateCollection(p)
    \/ \E p \in Procs : EmbedChunk(p)
    \/ \E p \in Procs : Upsert(p)
    \/ \E p \in Procs : IndexRaises(p)

SpecIngest == Init /\ [][NextIngest]_vars

\* ------------------- process 1 serves the uploads, process 2 the questions
NextAsk ==
    \/ \E doc \in Docs : IngestPdf(1, doc)
    \/ EmbedFirst(1)
    \/ EmbedRaises(1)
    \/ GetCollections(1)
    \/ CreateCollection(1)
    \/ EmbedChunk(1)
    \/ Upsert(1)
    \/ IndexRaises(1)
    \/ \E question \in Questions : AskQuestion(2, question)
    \/ Retrieve(2)
    \/ RetrieveEmbedRaises(2)
    \/ QueryRaises(2)
    \/ Generate(2)
    \/ GenerateRaises(2)
    \/ Answer(2)

SpecAsk == Init /\ [][NextAsk]_vars

\* ================================================================= claims
\* the points of the index that invocation n wrote
PointsOf(n) == {pt \in points : pt.id[1] = n}

\* C1: an ingest_pdf invocation in which an embed_text call raised (the probe
\* or a call of the loop) has raised itself, has never called upsert, and no
\* point of the index comes from it.
C1_BatchOrNothing ==
    \A p \in Procs :
        ing[p].error = "HTTPError" =>
            /\ ing[p].pc = "raised"
            /\ ing[p].upsertCalls = 0
            /\ PointsOf(ing[p].n) = {}

\* an embedding failed in the middle of the batch of a document, while the
\* index holds the points of another document
C1_Witness ==
    \E p \in Procs :
        /\ ing[p].error = "HTTPError"
        /\ Len(ing[p].points) >= 1
        /\ points # {}

\* C2: an ingest_pdf invocation on a document without text (zero chunks) has
\* failed with EmptyDocumentError, without an embedding call and without an upsert.
C2_EmptyDocumentError ==
    \A p \in Procs :
        (ing[p].pc # "idle" /\ ing[p].chunks = <<>>) =>
            /\ ing[p].error = "EmptyDocumentError"
            /\ ing[p].embedCalls = 0
            /\ ing[p].upsertCalls = 0

RECURSIVE Concat(_)
Concat(seqs) == IF seqs = <<>> THEN <<>> ELSE seqs[1] \o Concat(Tail(seqs))

C4_Sequential ==
    \A p \in Procs :
        /\ wf[p].log \in {<<>>, <<"retrieve">>, <<"retrieve", "generate">>}
        /\ wf[p].next = "retrieve" => wf[p].log = <<>>
        /\ wf[p].next = "generate" =>
              wf[p].log = <<"retrieve">> /\ wf[p].state.context = Context(wf[p].results)
        /\ wf[p].next = "END" => wf[p].log = <<"retrieve", "generate">>
        /\ wf[p].pc = "returned" =>
              wf[p].log = <<"retrieve", "generate">> /\ wf[p].genCalls = 1

\* an invocation has returned an answer generated from a non-empty context
C4_Witness ==
    \E p \in Procs : wf[p].pc = "returned" /\ wf[p].state.context # <<>>

\* C5: when embed_text or query_points raised in retrieve, or generate_answer
\* in generate, the invocation has raised: no node runs after the failure (so
\* no generate after a failed retrieve) and no answer is returned.
C5_FailureAborts ==
    \A p \in Procs :
        wf[p].error # "none" =>
            /\ wf[p].pc = "raised"
            /\ wf[p].next = "none"
            /\ wf[p].response = "none"
            /\ wf[p].log[Len(wf[p].log)] = "retrieve" => wf[p].genCalls = 0

\* generate_answer raised after retrieve had stored a non-empty context
C5_Witness ==
    \E p \in Procs :
        /\ wf[p].pc = "raised"
        /\ wf[p].log = <<"retrieve", "generate">>
        /\ wf[p].state.context # <<>>

\* C6: a question asked while the collection is empty or does not exist, the
\* services being up, gets context = [] from retrieve without an exception,
\* and generate calls generate_answer once with an empty context block and
\* its result is the answer returned.
C6_EmptyIndexAnswers ==
    \A p \in Procs :
        (wf[p].queried \in {"absent", "empty"} /\ wf[p].error \notin {"Unavailable", "HTTPError"}) =>
            /\ wf[p].error = "none"
            /\ wf[p].state.context = <<>>
            /\ wf[p].pc = "returned" =>
                  /\ wf[p].genCalls = 1
                  /\ wf[p].prompt.context_text = <<>>
                  /\ wf[p].response = [answer |-> generate_answer(wf[p].prompt)]

\* C7: every stored point has a vector of the size the collection was
\* created with, which is the length of the first first-chunk embedding.
C7_Dimensionality ==
    /\ points # {} => collection.exists
    /\ collection.exists =>
          /\ collection.size = probeLen
          /\ \A pt \in points : Len(pt.vector) = collection.size

\* the index holds the points of two ingestions
C7_Witness ==
    \E pt \in points : \E o \in points : pt.id[1] # o.id[1]

\* C8: no invocation issues a create request for a collection that exists.
C8_CreateOnlyWhenAbsent ==
    \A p \in Procs : ~ing[p].conflict

\* cos(q, v) is strictly greater than cos(q, o) for every other point o of ps
StrictlyNearest(ps, q, pt) == \A o \in ps \ {pt} : Closer(q, pt.vector, o.vector)

\* C9: after retrieve, the context holds at most 5 texts, the payloads of
\* the query's results in their order, which is by descending similarity; and
\* a stored chunk the question is strictly closer to than to any other stored
\* vector is among them.
C9_ClosestChunkRetrieved ==
    \A p \in Procs :
        wf[p].queried = "filled" /\ wf[p].error \notin {"Unavailable"} =>
            LET q == Embed(wf[p].state.question, dim)
                r == wf[p].results
                context == wf[p].state.context
            IN  /\ Len(context) <= Limit
                /\ Len(context) = Len(r)
                /\ \A k \in 1..Len(r) : context[k] = r[k].text
                /\ \A k \in 1..(Len(r) - 1) : ~Closer(q, r[k + 1].vector, r[k].vector)
                /\ \A pt \in wf[p].seen :
                      StrictlyNearest(wf[p].seen, q, pt) =>
                          \E k \in 1..Len(context) : context[k] = pt.text

\* the index held more than 5 points, one of them strictly nearest to the
\* question, and the query returned 5
C9_Witness ==
    \E p \in Procs :
        /\ wf[p].queried = "filled"
        /\ Cardinality(wf[p].seen) > Limit
        /\ Len(wf[p].state.context) = Limit
        /\ \E pt \in wf[p].seen :
              StrictlyNearest(wf[p].seen, Embed(wf[p].state.question, dim), pt)

\* C10 as stated: a successful ingest_pdf of n chunks made n embed_text
\* calls, one create_collection call and one upsert of n points.
C10_OneEmbedPerChunk ==
    \A p \in Procs :
        ing[p].pc = "done" =>
            /\ ing[p].embedCalls = Len(ing[p].chunks)
            /\ ing[p].ensureCalls = 1
            /\ ing[p].upsertCalls = 1
            /\ ing[p].batch = Len(ing[p].chunks)

\* C10 amended: a successful ingest_pdf of n >= 1 chunks made n + 1
\* embed_text calls (the probe of the first chunk and one per chunk), one
\* create_collection call and one upsert of n points.
C10_ProbePlusOnePerChunk ==
    \A p \in Procs :
        ing[p].pc = "done" =>
            /\ Len(ing[p].chunks) >= 1
            /\ ing[p].embedCalls = Len(ing[p].chunks) + 1
            /\ ing[p].ensureCalls = 1
            /\ ing[p].upsertCalls = 1
            /\ ing[p].batch = Len(ing[p].chunks)
            /\ Cardinality(PointsOf(ing[p].n)) = Len(ing[p].chunks)

\* an ingestion of a document of several chunks has succeeded
C10_Witness ==
    \E p \in Procs : ing[p].pc = "done" /\ Len(ing[p].chunks) >= 2

====
